---- MODULE Spec2Model ----
(***************************************************************************)
(* Model of scripts/progress.py, the rustlings progress reporter: the      *)
(* state reader (read_completed_slugs), the exercise scanner               *)
(* (find_all_exercises), the aggregator and entry point (percent, main)    *)
(* and the report writers (make_badge_svg, write_progress_md,              *)
(* patch_readme).                                                          *)
(*                                                                         *)
(* Text is modelled as the code handles it.  File names, directory names   *)
(* and the lines of the state file are sequences of one-character strings, *)
(* so that the regular expression of line 14, str.strip, str.removesuffix  *)
(* and pathlib's stem/suffix are computed character by character.  The     *)
(* README is a sequence of tokens: the begin marker, the end marker, a     *)
(* newline, the rendered summary line, and chunks of other text (a chunk   *)
(* holds no marker; neither marker has a proper prefix that is also a      *)
(* suffix of a marker, so no marker can form across two tokens).           *)
(*                                                                         *)
(* Four specifications share the variables: SpecPercent (percent on its    *)
(* own), SpecReadme (runs of patch_readme on arbitrary README contents),   *)
(* SpecScan (find_all_exercises on arbitrary trees and repository          *)
(* locations) and SpecMain (main on a repository).                         *)
(***************************************************************************)
EXTENDS Integers, Sequences, FiniteSets, TLC

VARIABLES
    pn, pd, pres,                          \* percent: its arguments; what it returned, once called
    readmeExists, readme, readme0, hist,   \* README.md: present?, content, first content, runs so far
    location, exerExists, tree,            \* where the repository lies; exercises/ present?; its entries
    scanned, catalog,                      \* find_all_exercises has returned; what it returned
    stateExists, stateLines,               \* .rustlings-state.txt: present?, its lines
    completed,                             \* what read_completed_slugs returned to main
    docsExists, badge, progressMd,         \* docs/, docs/badge.svg, docs/PROGRESS.md
    pc, runs                               \* main: inputs being set up or frozen; one record per run

pvars == <<pn, pd, pres>>
rvars == <<readmeExists, readme, readme0, hist>>
svars == <<location, exerExists, tree, scanned, catalog>>
mvars == <<stateExists, stateLines, completed, docsExists, badge, progressMd, pc, runs>>
vars == <<pvars, rvars, svars, mvars>>

----------------------------------------------------------------------------
(* Bounds of the model. *)

\* percent is applied to every 0 <= n <= d <= MaxD (ties of n*100/d need 8 | d).
MaxD == 16
\* Tokens of the README before the first run.
MaxReadmeLen == 4
\* Runs of patch_readme in SpecReadme; runs of main in SpecMain.
MaxRuns == 2
\* Totals of the summaries patch_readme is run with.
MaxTotal == 2
\* Directory levels between exercises/ and an entry, and entries, in SpecScan.
MaxDepth == 2
MaxEntries == 2
\* Files under exercises/ and lines of the state file in SpecMain.
MaxFiles == 3
MaxLines == 2

----------------------------------------------------------------------------
(* Strings, as sequences of characters. *)

S_exercises == <<"e", "x", "e", "r", "c", "i", "s", "e", "s">>
S_answers == <<"a", "n", "s", "w", "e", "r", "s">>
S_git == <<".", "g", "i", "t">>
S_target == <<"t", "a", "r", "g", "e", "t">>
S_rs == <<".", "r", "s">>
S_home == <<"h", "o", "m", "e">>
S_dev == <<"d", "e", "v">>
S_repo == <<"r", "u", "s", "t", "l", "i", "n", "g", "s", "-", "j", "o", "u", "r", "n", "e", "y">>
S_variables == <<"v", "a", "r", "i", "a", "b", "l", "e", "s">>
S_move_semantics == <<"m", "o", "v", "e", "_", "s", "e", "m", "a", "n", "t", "i", "c", "s">>
S_variables1 == <<"v", "a", "r", "i", "a", "b", "l", "e", "s", "1">>
S_variables2 == <<"v", "a", "r", "i", "a", "b", "l", "e", "s", "2">>
S_move_semantics2 == <<"m", "o", "v", "e", "_", "s", "e", "m", "a", "n", "t", "i", "c", "s", "2">>
S_variables1_rs == <<"v", "a", "r", "i", "a", "b", "l", "e", "s", "1", ".", "r", "s">>
S_variables2_rs == <<"v", "a", "r", "i", "a", "b", "l", "e", "s", "2", ".", "r", "s">>
S_move_semantics2_rs == <<"m", "o", "v", "e", "_", "s", "e", "m", "a", "n", "t", "i", "c", "s", "2", ".", "r", "s">>
S_notes_md == <<"n", "o", "t", "e", "s", ".", "m", "d">>
L_variables1_rs == <<"v", "a", "r", "i", "a", "b", "l", "e", "s", "1", ".", "r", "s">>
L_move_semantics2_extra == <<"m", "o", "v", "e", "_", "s", "e", "m", "a", "n", "t", "i", "c", "s", "2", " ", "(", "e", "x", "t", "r", "a", " ", "t", "e", "x", "t", ")">>
L_indented_variables2 == <<" ", " ", "v", "a", "r", "i", "a", "b", "l", "e", "s", "2">>
L_pending_variables2 == <<"(", "p", "e", "n", "d", "i", "n", "g", ")", " ", "v", "a", "r", "i", "a", "b", "l", "e", "s", "2">>
L_blank == <<" ", " ", " ">>
Lower == {"a", "b", "c", "d", "e", "f", "g", "h", "i", "j", "k", "l", "m", "n", "o", "p", "q", "r", "s", "t", "u", "v", "w", "x", "y", "z"}
Upper == {"A", "B", "C", "D", "E", "F", "G", "H", "I", "J", "K", "L", "M", "N", "O", "P", "Q", "R", "S", "T", "U", "V", "W", "X", "Y", "Z"}
Digit == {"0", "1", "2", "3", "4", "5", "6", "7", "8", "9"}

\* The characters of the class [A-Za-z0-9_\-\.] of _slug_re.
SlugChars == Lower \cup Upper \cup Digit \cup {"_", "-", "."}
\* Characters str.strip removes that can occur inside a line.
Whitespace == {" ", "\t"}

EXCLUDE_DIRS == {S_answers, S_git, S_target}
VALID_EXTS == {S_rs}

----------------------------------------------------------------------------
(* percent *)

\* round(a / b) for integers a >= 0, b > 0, as Python 3 computes it on the
\* float quotient: to the nearest integer, a tie to the even one.  (The
\* division is correctly rounded, so the float is an exact tie exactly when
\* a/b is: for the magnitudes here a non-tie is at least 1/(2b) away from
\* one, far more than the float error.)
round_div(a, b) ==
    LET q == a \div b
        r == a % b
    IN  IF 2 * r < b THEN q
        ELSE IF 2 * r > b THEN q + 1
        ELSE IF q % 2 = 0 THEN q ELSE q + 1

\* A percentage that truncates instead of rounding.
percent_truncating(n, d) == IF d = 0 THEN 0 ELSE (n * 100) \div d

percent(n, d) == IF d = 0 THEN 0 ELSE round_div(n * 100, d)

----------------------------------------------------------------------------
(* read_completed_slugs *)

RECURSIVE lstrip(_)
lstrip(s) == IF s = <<>> \/ Head(s) \notin Whitespace THEN s ELSE lstrip(Tail(s))

RECURSIVE rstrip(_)
rstrip(s) ==
    IF s = <<>> \/ s[Len(s)] \notin Whitespace THEN s
    ELSE rstrip(SubSeq(s, 1, Len(s) - 1))

strip(s) == rstrip(lstrip(s))

\* group(1) of _slug_re.match(line): the longest leading run of SlugChars;
\* <<>> stands for "no match" (the + of the pattern needs one character).
RECURSIVE slug_match(_)
slug_match(s) ==
    IF s = <<>> \/ Head(s) \notin SlugChars THEN <<>>
    ELSE <<Head(s)>> \o slug_match(Tail(s))

removesuffix(s, suf) ==
    IF Len(suf) > 0 /\ Len(s) >= Len(suf)
       /\ SubSeq(s, Len(s) - Len(suf) + 1, Len(s)) = suf
    THEN SubSeq(s, 1, Len(s) - Len(suf))
    ELSE s

\* A reader that keeps the matched token as it is.
line_slug_keeping_suffix(line) == slug_match(strip(line))

\* The slug one line adds to the set; <<>> when the line is skipped
\* (blank after strip, or no match).
line_slug(line) ==
    LET m == slug_match(strip(line))
    IN  IF m = <<>> THEN <<>> ELSE removesuffix(m, S_rs)

\* lines: STATE_FILE.read_text(...).splitlines()
read_completed_slugs(exists, lines) ==
    IF ~exists THEN {}
    ELSE { line_slug(lines[i]) :
             i \in { j \in 1..Len(lines) : slug_match(strip(lines[j])) # <<>> } }

----------------------------------------------------------------------------
(* find_all_exercises *)

\* An entry under exercises/: the directories between exercises/ and it, its
\* name, and whether it is a regular file.  (rglob also yields the
\* directories on the way; they are no files and are never counted.)

\* pathlib: the suffix starts at the last dot, unless that dot is the first or
\* the last character of the name.
RECURSIVE rfind_dot(_)
rfind_dot(s) ==
    IF s = <<>> THEN 0
    ELSE IF s[Len(s)] = "." THEN Len(s)
    ELSE rfind_dot(SubSeq(s, 1, Len(s) - 1))

suffix(name) ==
    LET i == rfind_dot(name)
    IN  IF 1 < i /\ i < Len(name) THEN SubSeq(name, i, Len(name)) ELSE <<>>

stem(name) ==
    LET i == rfind_dot(name)
    IN  IF 1 < i /\ i < Len(name) THEN SubSeq(name, 1, i - 1) ELSE name

\* path.parts of an entry: the path is EXER_DIR / ..., and EXER_DIR is the
\* resolved absolute path ROOT / "exercises", so the parts start at the
\* filesystem root with the directories the repository lies in.  (The first
\* part, the root "/" itself, is no name of EXCLUDE_DIRS and is left out.)
parts(loc, e) == loc \o <<S_exercises>> \o e.dirs \o <<e.name>>

\* An exclusion test that looks at the entry's own directory only.
is_excluded_parent_only(loc, e) ==
    e.dirs # <<>> /\ e.dirs[Len(e.dirs)] \in EXCLUDE_DIRS

\* any(part in EXCLUDE_DIRS for part in path.parts)
is_excluded(loc, e) ==
    \E i \in 1..Len(parts(loc, e)) : parts(loc, e)[i] \in EXCLUDE_DIRS

\* path.parent.name
topic_of(e) == IF e.dirs = <<>> THEN S_exercises ELSE e.dirs[Len(e.dirs)]

find_all_exercises(loc, exists, entries) ==
    IF ~exists THEN <<>>
    ELSE LET counted == { e \in entries :
                            /\ ~is_excluded(loc, e)
                            /\ e.isFile
                            /\ suffix(e.name) \in VALID_EXTS }
         IN  [ t \in { topic_of(e) : e \in counted } |->
                 { stem(e.name) : e \in { c \in counted : topic_of(c) = t } } ]

----------------------------------------------------------------------------
(* main: the aggregation *)

RECURSIVE sum_over(_, _)
sum_over(f, S) ==
    IF S = {} THEN 0
    ELSE LET x == CHOOSE y \in S : TRUE
         IN  f[x] + sum_over(f, S \ {x})

\* A count of the completed slugs that forgets the topic's own set.
topic_done_uncrossed(slugs, done_set) == Cardinality(done_set)

\* len(v & completed)
topic_done(slugs, done_set) == Cardinality(slugs \cap done_set)

\* An overall count that intersects the union of the topic sets once.
overall_done_global(topics, done_set) ==
    Cardinality((UNION { topics[t] : t \in DOMAIN topics }) \cap done_set)

\* done = sum(len(v & completed) for v in topics.values())
overall_done(topics, done_set) ==
    sum_over([ t \in DOMAIN topics |-> topic_done(topics[t], done_set) ], DOMAIN topics)

\* total = sum(len(v) for v in topics.values())
overall_total(topics) ==
    sum_over([ t \in DOMAIN topics |-> Cardinality(topics[t]) ], DOMAIN topics)

make_summary(topics, done_set) ==
    LET done == overall_done(topics, done_set)
        total == overall_total(topics)
    IN  [ done |-> done, total |-> total, pct |-> percent(done, total) ]

make_per_topic(topics, done_set) ==
    [ t \in DOMAIN topics |->
        LET d == topic_done(topics[t], done_set)
        IN  [ done |-> d, total |-> Cardinality(topics[t]),
              pct |-> percent(d, Cardinality(topics[t])) ] ]

\* What main prints: json.dumps({"summary": summary, "topics": per_topic}).
make_json(topics, done_set) ==
    [ summary |-> make_summary(topics, done_set),
      topics |-> make_per_topic(topics, done_set) ]

----------------------------------------------------------------------------
(* The report writers *)

\* The badge: label, message and the fixed widths lw, mw and w = lw + mw.
make_badge_svg(pct) ==
    [ label |-> "rustlings", msg |-> <<pct, "%">>, lw |-> 70, mw |-> 48, w |-> 70 + 48 ]

\* The characters of the names in use, in code-point order: sorted() compares
\* topic names as Python compares strings.
CodeOrder ==
    <<"-", ".">> \o <<"0", "1", "2", "3", "4", "5", "6", "7", "8", "9">>
    \o <<"_">>
    \o <<"a", "b", "c", "d", "e", "f", "g", "h", "i", "j", "k", "l", "m",
         "n", "o", "p", "q", "r", "s", "t", "u", "v", "w", "x", "y", "z">>

ord(c) == CHOOSE i \in 1..Len(CodeOrder) : CodeOrder[i] = c

RECURSIVE str_less(_, _)
str_less(a, b) ==
    IF b = <<>> THEN FALSE
    ELSE IF a = <<>> THEN TRUE
    ELSE IF Head(a) = Head(b) THEN str_less(Tail(a), Tail(b))
    ELSE ord(Head(a)) < ord(Head(b))

RECURSIVE sorted(_)
sorted(S) ==
    IF S = {} THEN <<>>
    ELSE LET m == CHOOSE x \in S : \A y \in S \ {x} : str_less(x, y)
         IN  <<m>> \o sorted(S \ {m})

\* docs/PROGRESS.md: the summary line and one table row per topic, by topic.
write_progress_md(summary, per_topic) ==
    [ completed |-> summary,
      rows |-> [ i \in 1..Cardinality(DOMAIN per_topic) |->
                   LET t == sorted(DOMAIN per_topic)[i]
                   IN  [ topic |-> t, stats |-> per_topic[t] ] ] ]

\* Tokens of the README.
BEGIN_MARKER == <<"<!-- RUSTLINGS_PROGRESS -->">>
END_MARKER == <<"<!-- /RUSTLINGS_PROGRESS -->">>
NL == <<"\n">>
BADGE_REF == <<"![Rustlings Progress](docs/badge.svg)  ">>

\* line: the badge reference, a newline, and the counts in bold.
summary_line(summary) ==
    << BADGE_REF, NL,
       <<"**", summary.done, " / ", summary.total, " completed (", summary.pct, "%)**">> >>

\* marker, "\n", line, "\n", end marker
marked_block(summary) == <<BEGIN_MARKER, NL>> \o summary_line(summary) \o <<NL, END_MARKER>>

has_marker(content) == \E i \in 1..Len(content) : content[i] = BEGIN_MARKER

\* A substitution that loses what follows the block it replaced.
RECURSIVE re_sub_dropping_tail(_, _)
re_sub_dropping_tail(content, repl) ==
    IF content = <<>> THEN <<>>
    ELSE IF Head(content) = BEGIN_MARKER
            /\ \E j \in 2..Len(content) : content[j] = END_MARKER
    THEN repl
    ELSE <<Head(content)>> \o re_sub_dropping_tail(Tail(content), repl)

\* re.sub(r"<begin>.*?<end>", repl, content, flags=re.S): from left to right,
\* each begin marker that an end marker follows is replaced, up to the first
\* end marker after it, and the scan goes on behind that end marker.
RECURSIVE re_sub(_, _)
re_sub(content, repl) ==
    IF content = <<>> THEN <<>>
    ELSE IF Head(content) = BEGIN_MARKER
            /\ \E j \in 2..Len(content) : content[j] = END_MARKER
    THEN LET j == CHOOSE k \in 2..Len(content) :
                    /\ content[k] = END_MARKER
                    /\ \A l \in 2..(k - 1) : content[l] # END_MARKER
         IN  repl \o re_sub(SubSeq(content, j + 1, Len(content)), repl)
    ELSE <<Head(content)>> \o re_sub(Tail(content), repl)

\* A patch that appends its block whatever the README holds.
patched_always_appending(content, summary) ==
    content \o <<NL, NL>> \o marked_block(summary) \o <<NL>>

\* The content patch_readme writes to an existing README.
patched(content, summary) ==
    IF has_marker(content)
    THEN re_sub(content, marked_block(summary))
    ELSE content \o <<NL, NL>> \o marked_block(summary) \o <<NL>>

\* patch_readme(summary): returns at once when there is no README.
patch_readme(exists, content, summary) ==
    IF ~exists THEN content ELSE patched(content, summary)

----------------------------------------------------------------------------
(* The state each specification leaves alone. *)

NoFile == [ absent |-> TRUE ]

PIdle == pn = 0 /\ pd = 0 /\ pres = <<>>
RIdle == readmeExists = FALSE /\ readme = <<>> /\ readme0 = <<>> /\ hist = <<>>
SIdle ==
    /\ location = <<>> /\ exerExists = FALSE /\ tree = {}
    /\ scanned = FALSE /\ catalog = <<>>
MIdle ==
    /\ stateExists = FALSE /\ stateLines = <<>> /\ completed = {}
    /\ docsExists = FALSE /\ badge = NoFile /\ progressMd = NoFile
    /\ pc = "idle" /\ runs = <<>>

----------------------------------------------------------------------------
(* SpecPercent: percent applied to 0 <= n <= d <= MaxD. *)

InitPercent ==
    /\ pd \in 0..MaxD
    /\ pn \in 0..pd
    /\ pres = <<>>
    /\ RIdle /\ SIdle /\ MIdle

CallPercent ==
    /\ pres = <<>>
    /\ pres' = <<percent(pn, pd)>>
    /\ UNCHANGED <<pn, pd, rvars, svars, mvars>>

NextPercent == CallPercent

SpecPercent == InitPercent /\ [][NextPercent]_vars

----------------------------------------------------------------------------
(* SpecReadme: runs of patch_readme on a README of any content. *)

\* What a README holds before the first run: the markers in any arrangement
\* and two different chunks of other text.
ReadmeTokens == { BEGIN_MARKER, END_MARKER, <<"intro">>, <<"notes">> }

ReadmeContents == UNION { [ 1..k -> ReadmeTokens ] : k \in 0..MaxReadmeLen }

\* The summaries main can pass.
Summaries ==
    UNION { { [ done |-> d, total |-> t, pct |-> percent(d, t) ] : d \in 0..t } :
              t \in 0..MaxTotal }

InitReadme ==
    /\ readmeExists \in BOOLEAN
    /\ readme \in (IF readmeExists THEN ReadmeContents ELSE { <<>> })
    /\ readme0 = readme
    /\ hist = <<>>
    /\ PIdle /\ SIdle /\ MIdle

\* A run of patch_readme(summary).
PatchReadme(summary) ==
    /\ Len(hist) < MaxRuns
    /\ readme' = patch_readme(readmeExists, readme, summary)
    /\ hist' = Append(hist, [ summary |-> summary, before |-> readme, after |-> readme' ])
    /\ UNCHANGED <<readmeExists, readme0, pvars, svars, mvars>>

NextReadme == \E s \in Summaries : PatchReadme(s)

SpecReadme == InitReadme /\ [][NextReadme]_vars

----------------------------------------------------------------------------
(* SpecScan: find_all_exercises on any tree, wherever the repository lies. *)

\* ROOT, as parts below the filesystem root: a plain checkout, and a checkout
\* inside a directory called target.
Locations ==
    { <<S_home, S_dev, S_repo>>,
      <<S_home, S_dev, S_target, S_repo>> }

ScanDirNames == { S_variables, S_answers, S_git }

\* A source file, a file of another extension, and a directory whose name
\* ends in .rs.
ScanNames ==
    { [ name |-> S_variables1_rs, isFile |-> TRUE ],
      [ name |-> S_notes_md, isFile |-> TRUE ],
      [ name |-> S_variables2_rs, isFile |-> FALSE ] }

ScanEntries ==
    { [ dirs |-> d, name |-> n.name, isFile |-> n.isFile ] :
        d \in UNION { [ 1..k -> ScanDirNames ] : k \in 0..MaxDepth },
        n \in ScanNames }

InitScan ==
    /\ location \in Locations
    /\ exerExists \in BOOLEAN
    /\ tree = {}
    /\ scanned = FALSE
    /\ catalog = <<>>
    /\ PIdle /\ RIdle /\ MIdle

\* An entry appears under exercises/.
CreateEntry(e) ==
    /\ ~scanned
    /\ exerExists
    /\ Cardinality(tree) < MaxEntries
    /\ e \notin tree
    /\ tree' = tree \cup {e}
    /\ UNCHANGED <<location, exerExists, scanned, catalog, pvars, rvars, mvars>>

Scan ==
    /\ ~scanned
    /\ scanned' = TRUE
    /\ catalog' = find_all_exercises(location, exerExists, tree)
    /\ UNCHANGED <<location, exerExists, tree, pvars, rvars, mvars>>

NextScan ==
    \/ \E e \in ScanEntries : CreateEntry(e)
    \/ Scan

SpecScan == InitScan /\ [][NextScan]_vars

----------------------------------------------------------------------------
(* SpecMain: main on a repository. *)

\* Files that can lie under exercises/: the exercises of two topics, a stem
\* used in both topics, and a solution under answers/.
MainEntries ==
    { [ dirs |-> <<S_variables>>, name |-> S_variables1_rs, isFile |-> TRUE ],
      [ dirs |-> <<S_variables>>, name |-> S_variables2_rs, isFile |-> TRUE ],
      [ dirs |-> <<S_move_semantics>>, name |-> S_move_semantics2_rs, isFile |-> TRUE ],
      [ dirs |-> <<S_move_semantics>>, name |-> S_variables1_rs, isFile |-> TRUE ],
      [ dirs |-> <<S_answers>>, name |-> S_variables1_rs, isFile |-> TRUE ] }

\* Lines the state file can hold.
StateLines ==
    { L_variables1_rs, L_move_semantics2_extra, L_indented_variables2,
      L_pending_variables2, L_blank }

InitMain ==
    /\ location \in Locations
    /\ exerExists = FALSE
    /\ tree = {}
    /\ scanned = FALSE
    /\ catalog = <<>>
    /\ stateExists = FALSE
    /\ stateLines = <<>>
    /\ completed = {}
    /\ readmeExists \in BOOLEAN
    /\ readme = IF readmeExists THEN << <<"intro">> >> ELSE <<>>
    /\ readme0 = readme
    /\ hist = <<>>
    /\ docsExists = FALSE
    /\ badge = NoFile
    /\ progressMd = NoFile
    /\ pc = "setup"
    /\ runs = <<>>
    /\ PIdle

\* The learner adds a file under exercises/.
CreateExercise(e) ==
    /\ pc = "setup"
    /\ Cardinality(tree) < MaxFiles
    /\ e \notin tree
    /\ tree' = tree \cup {e}
    /\ exerExists' = TRUE
    /\ UNCHANGED <<location, scanned, catalog, pvars, rvars, mvars>>

\* rustlings records a line in the state file.
AppendStateLine(line) ==
    /\ pc = "setup"
    /\ Len(stateLines) < MaxLines
    /\ stateExists' = TRUE
    /\ stateLines' = Append(stateLines, line)
    /\ UNCHANGED <<completed, docsExists, badge, progressMd, pc, runs, pvars, rvars, svars>>

\* A main that writes the report files whatever the flag says.
written_unconditionally(update_files, old, new) == new

\* if update_files: ... write_text(new); a dry run leaves the file as it is.
written(update_files, old, new) == IF update_files THEN new ELSE old

\* main(update_files)
Main(update_files) ==
    LET done_set == read_completed_slugs(stateExists, stateLines)
        topics == find_all_exercises(location, exerExists, tree)
        summary == make_summary(topics, done_set)
        per_topic == make_per_topic(topics, done_set)
    IN  /\ Len(runs) < MaxRuns
        /\ pc' = "ran"
        /\ completed' = done_set
        /\ catalog' = topics
        /\ scanned' = TRUE
        /\ docsExists' = written(update_files, docsExists, TRUE)
        /\ badge' = written(update_files, badge, make_badge_svg(summary.pct))
        /\ progressMd' = written(update_files, progressMd, write_progress_md(summary, per_topic))
        /\ readme' = written(update_files, readme, patch_readme(readmeExists, readme, summary))
        /\ runs' = Append(runs, [ dry |-> ~update_files, json |-> make_json(topics, done_set) ])
        /\ UNCHANGED <<location, exerExists, tree, stateExists, stateLines,
                       readmeExists, readme0, hist, pvars>>

NextMain ==
    \/ \E e \in MainEntries : CreateExercise(e)
    \/ \E line \in StateLines : AppendStateLine(line)
    \/ \E update_files \in BOOLEAN : Main(update_files)

SpecMain == InitMain /\ [][NextMain]_vars

----------------------------------------------------------------------------
(* Claims about patch_readme, under SpecReadme. *)

CountOf(content, token) == Cardinality({ i \in 1..Len(content) : content[i] = token })

HasNoMarkers(content) ==
    \A i \in 1..Len(content) : content[i] \notin { BEGIN_MARKER, END_MARKER }

\* The block a run with this summary leaves between and including the markers.
BlockOf(summary) ==
    << BEGIN_MARKER, NL, BADGE_REF, NL,
       <<"**", summary.done, " / ", summary.total, " completed (", summary.pct, "%)**">>,
       NL, END_MARKER >>

ContainsBlock(content, summary) ==
    \E i \in 1..Len(content) :
        /\ i + Len(BlockOf(summary)) - 1 <= Len(content)
        /\ SubSeq(content, i, i + Len(BlockOf(summary)) - 1) = BlockOf(summary)

\* C3: a run of patch_readme with the summary of the run before it leaves the
\* README as that run left it, and leaves as many begin and end markers,
\* whatever the README held at first.
C3_PatchIdempotent ==
    \A i \in 2..Len(hist) :
        hist[i].summary = hist[i - 1].summary =>
            /\ hist[i].after = hist[i - 1].after
            /\ CountOf(hist[i].after, BEGIN_MARKER) = CountOf(hist[i - 1].after, BEGIN_MARKER)
            /\ CountOf(hist[i].after, END_MARKER) = CountOf(hist[i - 1].after, END_MARKER)

\* Two runs with one summary on a README that held markers, the first of
\* which changed it.
C3_Witness ==
    /\ readmeExists
    /\ Len(hist) = 2
    /\ hist[1].summary = hist[2].summary
    /\ CountOf(readme0, BEGIN_MARKER) > 0
    /\ hist[1].after # hist[1].before

\* C5: on a README without markers a run appends one marked block and keeps
\* the prior content as a prefix; the run after it, whatever its summary,
\* changes nothing before the begin marker and nothing after the end marker.
C5_AppendThenReplaceInPlace ==
    \A i \in 1..Len(hist) :
        (readmeExists /\ HasNoMarkers(hist[i].before)) =>
            /\ hist[i].after =
                 hist[i].before \o <<NL, NL>> \o BlockOf(hist[i].summary) \o <<NL>>
            /\ i < Len(hist) =>
                 hist[i + 1].after =
                   hist[i].before \o <<NL, NL>> \o BlockOf(hist[i + 1].summary) \o <<NL>>

\* A README with text and no markers, patched twice with different percentages.
C5_Witness ==
    /\ readmeExists
    /\ Len(hist) = 2
    /\ readme0 # <<>> /\ HasNoMarkers(readme0)
    /\ hist[1].summary.pct # hist[2].summary.pct
    /\ readme # hist[1].after

\* C10: after a run of patch_readme on an existing README, the README holds a
\* marked block with the summary of that run.
C10_ReadmeShowsLastRun ==
    (readmeExists /\ Len(hist) > 0) => ContainsBlock(readme, hist[Len(hist)].summary)

----------------------------------------------------------------------------
(* Claims about percent, under SpecPercent. *)

\* C2 as stated: percent(n, 0) = 0, and for d > 0 percent(n, d) is n*100/d
\* rounded to the nearest integer, an exact .5 rounded up.
C2_RoundsHalfUp ==
    pres # <<>> =>
        IF pd = 0 THEN pres[1] = 0
        ELSE pres[1] = (2 * pn * 100 + pd) \div (2 * pd)

\* C2, amended: percent(n, 0) = 0, and for d > 0 percent(n, d) is the integer
\* nearest to n*100/d, the even one of the two when n*100/d lies exactly
\* between two integers.
C2_RoundsHalfEven ==
    pres # <<>> =>
        IF pd = 0 THEN pres[1] = 0
        ELSE /\ pres[1] \in 0..100
             /\ 2 * pres[1] * pd - pd <= 2 * pn * 100
             /\ 2 * pn * 100 <= 2 * pres[1] * pd + pd
             /\ (2 * pn * 100 = 2 * pres[1] * pd + pd \/ 2 * pn * 100 = 2 * pres[1] * pd - pd)
                  => pres[1] % 2 = 0

\* percent(1, 8): 12.5 is rounded down, to the even 12.
C2_Witness == pn = 1 /\ pd = 8 /\ pres = <<12>>

----------------------------------------------------------------------------
(* Claims about find_all_exercises, under SpecScan. *)

UnderExcludedDir(e) == \E i \in 1..Len(e.dirs) : e.dirs[i] \in EXCLUDE_DIRS

IsSourceFile(e) ==
    /\ e.isFile
    /\ Len(e.name) > 3
    /\ SubSeq(e.name, Len(e.name) - 2, Len(e.name)) = <<".", "r", "s">>

NameWithoutExtension(e) == SubSeq(e.name, 1, Len(e.name) - 3)

ParentName(e) == IF e.dirs = <<>> THEN S_exercises ELSE e.dirs[Len(e.dirs)]

\* C4: every identifier of the catalog comes from a source file that lies
\* under no excluded directory: a file under answers, .git or target, at
\* any depth, adds nothing to the catalog.
C4_ExcludedNeverCounted ==
    scanned =>
        \A t \in DOMAIN catalog : \A id \in catalog[t] :
            \E e \in tree :
                /\ IsSourceFile(e)
                /\ ~UnderExcludedDir(e)
                /\ ParentName(e) = t
                /\ NameWithoutExtension(e) = id

\* A plain checkout, scanned, with a counted source file and a source file two
\* levels below an excluded directory.
C4_Witness ==
    /\ scanned
    /\ DOMAIN catalog # {}
    /\ \E e \in tree :
        /\ IsSourceFile(e)
        /\ Len(e.dirs) = 2
        /\ e.dirs[1] \in EXCLUDE_DIRS
        /\ e.dirs[2] \notin EXCLUDE_DIRS

\* C9: every source file under the exercise root with no excluded name among
\* its components below the root is in the catalog, under the topic named
\* after its parent directory, wherever the repository lies.
C9_CountedWhateverLiesAbove ==
    scanned =>
        \A e \in tree :
            (IsSourceFile(e) /\ ~UnderExcludedDir(e) /\ e.name \notin EXCLUDE_DIRS) =>
                /\ ParentName(e) \in DOMAIN catalog
                /\ NameWithoutExtension(e) \in catalog[ParentName(e)]

----------------------------------------------------------------------------
(* Claims about main, under SpecMain. *)

InRange(stats) ==
    /\ stats.done <= stats.total
    /\ 0 <= stats.pct /\ stats.pct <= 100

\* C1: in every JSON main prints, done <= total and 0 <= pct <= 100, in the
\* overall summary and in the record of every topic.
C1_DoneWithinTotal ==
    \A i \in 1..Len(runs) :
        /\ InRange(runs[i].json.summary)
        /\ \A t \in DOMAIN runs[i].json.topics : InRange(runs[i].json.topics[t])

\* A run over two topics with some, not all, exercises done, and more lines
\* in the state file than one of the topics has exercises.
C1_Witness ==
    /\ Len(runs) > 0
    /\ Cardinality(DOMAIN runs[1].json.topics) = 2
    /\ runs[1].json.summary.done > 0
    /\ runs[1].json.summary.done < runs[1].json.summary.total
    /\ \E t \in DOMAIN catalog : Cardinality(catalog[t]) < Cardinality(completed)

\* C6: a dry run of main leaves docs/, the badge, the progress report and the
\* README (and the state file and the exercise tree) as they were, and prints
\* the JSON every other run on the same state file and exercise tree prints.
C6_DryRunWritesNothing ==
    [][ (Len(runs') = Len(runs) + 1 /\ runs'[Len(runs')].dry) =>
            /\ UNCHANGED <<docsExists, badge, progressMd, readmeExists, readme>>
            /\ UNCHANGED <<exerExists, tree, stateExists, stateLines>>
            /\ \A i \in 1..Len(runs) : runs[i].json = runs'[Len(runs')].json ]_vars

\* A dry run after a run that wrote the files, with exercises done.
C6_Witness ==
    /\ Len(runs) = 2
    /\ ~runs[1].dry /\ runs[2].dry
    /\ runs[2].json.summary.done > 0
    /\ readmeExists /\ docsExists

\* The part of a line the reader looks at: the line without the whitespace
\* around it, up to its first character outside [A-Za-z0-9_-.].
Trimmed(line) ==
    LET inked == { i \in 1..Len(line) : line[i] \notin {" ", "\t"} }
    IN  IF inked = {} THEN <<>>
        ELSE SubSeq(line, CHOOSE i \in inked : \A j \in inked : i <= j,
                          CHOOSE i \in inked : \A j \in inked : j <= i)

LeadingRun(line) ==
    LET s == Trimmed(line)
        n == CHOOSE k \in 0..Len(s) :
                /\ \A i \in 1..k : s[i] \in SlugChars
                /\ k < Len(s) => s[k + 1] \notin SlugChars
    IN  SubSeq(s, 1, n)

WithoutRs(s) ==
    IF Len(s) >= 3 /\ SubSeq(s, Len(s) - 2, Len(s)) = <<".", "r", "s">>
    THEN SubSeq(s, 1, Len(s) - 3)
    ELSE s

\* The state file names this identifier.
Named(id) ==
    /\ stateExists
    /\ \E k \in 1..Len(stateLines) :
        /\ LeadingRun(stateLines[k]) # <<>>
        /\ WithoutRs(LeadingRun(stateLines[k])) = id

ScenarioCatalog ==
    [ t \in { S_variables, S_move_semantics } |->
        IF t = S_variables THEN { S_variables1, S_variables2 } ELSE { S_move_semantics2 } ]

ScenarioJson ==
    [ summary |-> [ done |-> 2, total |-> 3, pct |-> 67 ],
      topics |-> [ t \in { S_variables, S_move_semantics } |->
                     IF t = S_variables THEN [ done |-> 1, total |-> 2, pct |-> 50 ]
                     ELSE [ done |-> 1, total |-> 1, pct |-> 100 ] ] ]

\* C7: main counts, per topic, exactly the identifiers of the catalog that a
\* non-blank line of the state file names by its leading run of
\* [A-Za-z0-9_-.] (the line taken without the whitespace around it) with a
\* trailing .rs removed; text behind the run is ignored and a line without a
\* run names nothing; and the lines variables1.rs
\* and "move_semantics2 (extra text)" against variables = {variables1,
\* variables2}, move_semantics = {move_semantics2} give 1/2 50%, 1/1 100%
\* and 2/3 67% overall.
C7_DoneIffNamedInStateFile ==
    \A i \in 1..Len(runs) :
        /\ DOMAIN runs[i].json.topics = DOMAIN catalog
        /\ \A t \in DOMAIN catalog :
            /\ runs[i].json.topics[t].done =
                 Cardinality({ id \in catalog[t] : Named(id) })
            /\ runs[i].json.topics[t].total = Cardinality(catalog[t])
        /\ (stateLines = <<L_variables1_rs, L_move_semantics2_extra>>
            /\ catalog = ScenarioCatalog) => runs[i].json = ScenarioJson

\* The scenario of the claim has run.
C7_Witness ==
    /\ Len(runs) > 0
    /\ stateLines = <<L_variables1_rs, L_move_semantics2_extra>>
    /\ catalog = ScenarioCatalog
    /\ runs[1].json = ScenarioJson

AllIdentifiers == UNION { catalog[t] : t \in DOMAIN catalog }

TopicsDisjoint ==
    \A t \in DOMAIN catalog : \A u \in DOMAIN catalog :
        t # u => catalog[t] \cap catalog[u] = {}

\* C8 as stated: the overall done count is the number of completed
\* identifiers among all identifiers of the catalog.
C8_DoneIsGlobalIntersection ==
    \A i \in 1..Len(runs) :
        runs[i].json.summary.done = Cardinality(AllIdentifiers \cap completed)

\* C8, amended: the overall done count is the number of pairs of a topic and
\* a completed identifier of that topic; it is the number of completed
\* identifiers among all identifiers of the catalog when the topic sets are
\* pairwise disjoint, and larger when a completed identifier lies in two
\* topic sets.
C8_DoneCountsPerTopic ==
    \A i \in 1..Len(runs) :
        /\ runs[i].json.summary.done =
             Cardinality({ p \in (DOMAIN catalog) \X AllIdentifiers :
                             p[2] \in catalog[p[1]] /\ p[2] \in completed })
        /\ TopicsDisjoint =>
             runs[i].json.summary.done = Cardinality(AllIdentifiers \cap completed)
        /\ ~TopicsDisjoint =>
             runs[i].json.summary.done >= Cardinality(AllIdentifiers \cap completed)

\* One completed identifier in two topics: counted twice.
C8_Witness ==
    /\ Len(runs) > 0
    /\ ~TopicsDisjoint
    /\ Cardinality(AllIdentifiers \cap completed) = 1
    /\ runs[1].json.summary.done = 2
====
